---- MODULE Spec2Model ----
(***************************************************************************)
(* Model of the set-membership evaluator (sql/expression/in.go: InTuple,   *)
(* HashInTuple) and of the index-expression mini-parser combinators        *)
(* (package parse: readQuotableIdent, maybeList, ...).                     *)
(*                                                                         *)
(* Values, types and the Literal / GetField / Tuple expressions are not    *)
(* part of the listed sources; they are modelled from the specification    *)
(* (sections 3 and 4.1).  What the specification leaves undefined          *)
(* (Convert and Compare on NULL) is a nondeterministic outcome `u`.        *)
(***************************************************************************)
EXTENDS Integers, Sequences, FiniteSets, TLC

\* ------------------------------------------------------------------ bounds
\* longest candidate list of the IN operator
MaxCands == 2
\* longest arbitrary parser input
MaxLen == 4
\* most identifiers in a generated list input
MaxItems == 3
\* most children handed to WithChildren
MaxChildren == 3
\* longest name of a generated quoted identifier
MaxName == 3
\* longest input of the optional / maybe runs
MaxText == 3
\* most steps handed to optional
MaxSteps == 2

\* ------------------------------------------------------------------ values
\* every value has the same shape so that any two values can be compared
NullV == [k |-> "null", n |-> 0, elems |-> <<>>]
IntV(n) == [k |-> "int", n |-> n, elems |-> <<>>]
\* a string: the decimal text of n, or a non-numeric text when n = NonNumeric
NonNumeric == -1
StrV(n) == [k |-> "str", n |-> n, elems |-> <<>>]
TupV(s) == [k |-> "tuple", n |-> 0, elems |-> s]
TrueV == [k |-> "bool", n |-> 1, elems |-> <<>>]
FalseV == [k |-> "bool", n |-> 0, elems |-> <<>>]

\* ------------------------------------------------------------------- types
ScalarType(name) == [name |-> name, elems |-> <<>>]
TupleType(ts) == [name |-> "Tuple", elems |-> ts]
\* the nil sql.Type (var t sql.Type, never assigned)
NilType == [name |-> "nil", elems |-> <<>>]
Int8 == ScalarType("Int8")
Int64 == ScalarType("Int64")
Text == ScalarType("Text")
NullType == ScalarType("Null")

RECURSIVE Promote(_)
Promote(t) ==
  IF t.name = "Tuple"
    THEN TupleType([i \in 1..Len(t.elems) |-> Promote(t.elems[i])])
    ELSE IF t.name = "Int8" THEN Int64 ELSE t

NumColumns(t) == IF t.name = "Tuple" THEN Len(t.elems) ELSE 1

\* errors are names; NoErr is Go's nil error
NoErr == "nil"
ErrConversion == "ErrConversion"
ErrCompare == "ErrCompare"
ErrIndexOutOfBounds == "ErrIndexOutOfBounds"
ErrInvalidOperandColumns == "ErrInvalidOperandColumns"
ErrUnsupportedInOperand == "ErrUnsupportedInOperand"
ErrUnsupportedHashInOperand == "ErrUnsupportedHashInOperand"
ErrUnsupportedHashInSubexpression == "ErrUnsupportedHashInSubexpression"
ErrInvalidChildrenNumber == "ErrInvalidChildrenNumber"
\* a run-time panic (method call on the nil sql.Type)
Panic == "panic"

\* The outcomes of the operations the specification leaves undefined:
\* conv: Convert(NULL) yields NULL or a ConversionError;
\* cmp:  Compare with a NULL operand yields -1, 0, 1 or (2) an error.
CmpFails == 2
Undefined == [conv : {"null", "err"}, cmp : {-1, 0, 1, CmpFails}]

\* Convert(v) of type t: <<value, error>>
RECURSIVE Convert(_, _, _)
Convert(t, v, u) ==
  IF t.name = "nil" THEN [val |-> NullV, err |-> Panic]
  ELSE IF v.k = "null"
    THEN IF u.conv = "null" THEN [val |-> NullV, err |-> NoErr]
                            ELSE [val |-> NullV, err |-> ErrConversion]
  ELSE IF t.name = "Tuple"
    THEN IF v.k = "tuple" /\ Len(v.elems) = Len(t.elems)
           THEN LET cs == [i \in 1..Len(t.elems) |-> Convert(t.elems[i], v.elems[i], u)]
                IN IF \E i \in 1..Len(cs) : cs[i].err # NoErr
                     THEN [val |-> NullV, err |-> ErrConversion]
                     ELSE [val |-> TupV([i \in 1..Len(cs) |-> cs[i].val]), err |-> NoErr]
           ELSE [val |-> NullV, err |-> ErrConversion]
  ELSE IF v.k = "tuple" THEN [val |-> NullV, err |-> ErrConversion]
  ELSE IF t.name \in {"Int8", "Int64"}
    THEN IF v.k = "int" THEN [val |-> v, err |-> NoErr]
         ELSE IF v.n # NonNumeric THEN [val |-> IntV(v.n), err |-> NoErr]
         ELSE [val |-> NullV, err |-> ErrConversion]
  ELSE IF t.name = "Text"
    THEN [val |-> StrV(v.n), err |-> NoErr]
  ELSE \* the Null type represents no non-NULL value
       [val |-> NullV, err |-> ErrConversion]

Sign(a, b) == IF a < b THEN -1 ELSE IF a > b THEN 1 ELSE 0

\* Compare(a, b) of type t, both already converted: <<cmp, error>>
RECURSIVE Compare(_, _, _, _)
Compare(t, a, b, u) ==
  IF a.k = "null" \/ b.k = "null"
    THEN IF u.cmp = CmpFails THEN [cmp |-> 0, err |-> ErrCompare]
                             ELSE [cmp |-> u.cmp, err |-> NoErr]
  ELSE IF a.k = "tuple" /\ b.k = "tuple"
    THEN LET n == IF Len(a.elems) < Len(b.elems) THEN Len(a.elems) ELSE Len(b.elems)
             cs == [i \in 1..n |-> Compare(IF i <= Len(t.elems) THEN t.elems[i] ELSE NilType,
                                           a.elems[i], b.elems[i], u)]
             bad == {i \in 1..n : cs[i].err # NoErr \/ cs[i].cmp # 0}
         IN IF bad = {} THEN [cmp |-> Sign(Len(a.elems), Len(b.elems)), err |-> NoErr]
            ELSE LET i == CHOOSE j \in bad : \A m \in bad : j <= m
                 IN cs[i]
  ELSE [cmp |-> Sign(a.n, b.n), err |-> NoErr]

\* ------------------------------------------------------------- expressions
Literal(v, t) == [kind |-> "Literal", value |-> v, type |-> t, index |-> 0, elems |-> <<>>]
GetField(i, t) == [kind |-> "GetField", value |-> NullV, type |-> t, index |-> i, elems |-> <<>>]
Tuple(es) == [kind |-> "Tuple", value |-> NullV, type |-> NilType, index |-> 0, elems |-> es]

RECURSIVE TypeOf(_)
TypeOf(e) ==
  IF e.kind = "Tuple"
    THEN TupleType([i \in 1..Len(e.elems) |-> TypeOf(e.elems[i])])
    ELSE e.type

\* Eval of a Literal, a GetField (field index from 0) or a Tuple on a row
RECURSIVE EvalExpr(_, _)
EvalExpr(e, row) ==
  IF e.kind = "Literal" THEN [val |-> e.value, err |-> NoErr]
  ELSE IF e.kind = "GetField"
    THEN IF e.index >= Len(row) THEN [val |-> NullV, err |-> ErrIndexOutOfBounds]
                                ELSE [val |-> row[e.index + 1], err |-> NoErr]
  ELSE LET rs == [i \in 1..Len(e.elems) |-> EvalExpr(e.elems[i], row)]
           bad == {i \in 1..Len(rs) : rs[i].err # NoErr}
       IN IF bad # {}
            THEN [val |-> NullV, err |-> rs[CHOOSE j \in bad : \A m \in bad : j <= m].err]
            ELSE [val |-> TupV([i \in 1..Len(rs) |-> rs[i].val]), err |-> NoErr]

\* ------------------------------------------------------------ InTuple.Eval
\* what Eval did, in order: the operand it evaluated (i = 0 the left one,
\* i >= 1 the i-th candidate) and the values it handed to Convert / Compare
Event(ev, i, v) == [ev |-> ev, i |-> i, v |-> v]
Result(val, err, log) == [val |-> val, err |-> err, log |-> log]

NewInTuple(left, right) ==
  [kind |-> "InTuple", left |-> left, right |-> right,
   cmp |-> {}, hasNull |-> FALSE, rightType |-> NilType]

\* the candidate loop without the return on a match: the remaining
\* candidates are still evaluated before true is returned
RECURSIVE InTupleLoopNoStop(_, _, _, _, _, _, _, _)
InTupleLoopNoStop(typ, left, els, i, rightNull, log, row, u) ==
  IF i > Len(els)
    THEN IF rightNull THEN Result(NullV, NoErr, log) ELSE Result(FalseV, NoErr, log)
  ELSE
    LET r == EvalExpr(els[i], row)
        log1 == Append(log, Event("eval", i, NullV))
    IN IF r.err # NoErr THEN Result(NullV, r.err, log1)
       ELSE IF ~rightNull /\ r.val = NullV
         THEN InTupleLoopNoStop(typ, left, els, i + 1, TRUE, log1, row, u)
       ELSE
         LET c == Convert(typ, r.val, u)
             log2 == Append(log1, Event("convert", i, r.val))
         IN IF c.err # NoErr THEN Result(NullV, c.err, log2)
            ELSE
              LET cmp == Compare(typ, left, c.val, u)
                  log3 == Append(log2, Event("compare", i, c.val))
              IN IF cmp.err # NoErr THEN Result(NullV, cmp.err, log3)
                 ELSE IF cmp.cmp = 0
                   THEN LET rest == InTupleLoopNoStop(typ, left, els, i + 1, rightNull, log3, row, u)
                        IN IF rest.err # NoErr THEN rest ELSE Result(TrueV, NoErr, rest.log)
                 ELSE InTupleLoopNoStop(typ, left, els, i + 1, rightNull, log3, row, u)

\* the candidate loop of InTuple.Eval from candidate i on
RECURSIVE InTupleLoop(_, _, _, _, _, _, _, _)
InTupleLoop(typ, left, els, i, rightNull, log, row, u) ==
  IF i > Len(els)
    THEN IF rightNull THEN Result(NullV, NoErr, log) ELSE Result(FalseV, NoErr, log)
  ELSE
    LET r == EvalExpr(els[i], row)
        log1 == Append(log, Event("eval", i, NullV))
    IN IF r.err # NoErr THEN Result(NullV, r.err, log1)
       ELSE IF ~rightNull /\ r.val = NullV
         THEN InTupleLoop(typ, left, els, i + 1, TRUE, log1, row, u)
       ELSE
         LET c == Convert(typ, r.val, u)
             log2 == Append(log1, Event("convert", i, r.val))
         IN IF c.err # NoErr THEN Result(NullV, c.err, log2)
            ELSE
              LET cmp == Compare(typ, left, c.val, u)
                  log3 == Append(log2, Event("compare", i, c.val))
              IN IF cmp.err # NoErr THEN Result(NullV, cmp.err, log3)
                 ELSE IF cmp.cmp = 0 THEN Result(TrueV, NoErr, log3)
                 ELSE InTupleLoop(typ, left, els, i + 1, rightNull, log3, row, u)

InTupleEval(in, row, u) ==
  LET typ == Promote(TypeOf(in.left))
      leftElems == NumColumns(typ)
      l == EvalExpr(in.left, row)
      log1 == <<Event("eval", 0, NullV)>>
  IN IF l.err # NoErr THEN Result(NullV, l.err, log1)
     ELSE IF l.val = NullV THEN Result(NullV, NoErr, log1)
     ELSE
       LET c == Convert(typ, l.val, u)
           log2 == Append(log1, Event("convert", 0, l.val))
       IN IF c.err # NoErr THEN Result(NullV, c.err, log2)
          ELSE IF in.right.kind # "Tuple"
            THEN Result(NullV, ErrUnsupportedInOperand, log2)
          ELSE IF \E i \in 1..Len(in.right.elems) :
                    NumColumns(TypeOf(in.right.elems[i])) # leftElems
            THEN Result(NullV, ErrInvalidOperandColumns, log2)
          ELSE InTupleLoop(typ, c.val, in.right.elems, 1, FALSE, log2, row, u)

\* --------------------------------------------------------------- Children
InTupleChildren(in) == <<in.left, in.right>>

\* WithChildren that only rejects too few children
InTupleWithChildrenAtLeast(in, children) ==
  IF Len(children) < 2
    THEN [node |-> [kind |-> "none"], err |-> ErrInvalidChildrenNumber]
    ELSE [node |-> NewInTuple(children[1], children[2]), err |-> NoErr]

\* InTuple.WithChildren; HashInTuple embeds InTuple and has no method of its
\* own, so the same code runs for both receivers
InTupleWithChildren(in, children) ==
  IF Len(children) # 2
    THEN [node |-> [kind |-> "none"], err |-> ErrInvalidChildrenNumber]
    ELSE [node |-> NewInTuple(children[1], children[2]), err |-> NoErr]

\* ------------------------------------------------------------- HashInTuple
\* xxhash of the bytes written: modelled as the sequence of written items
\* itself (no two different byte strings of the model collide)
Hash(tokens) == [k |-> "hash", n |-> 0, elems |-> tokens]
HashResult(key, err) == [key |-> key, err |-> err]

\* hashOfTuple: literal leaves are written unconverted, a nested tuple as
\* its own hash; the type switch has no default case, so any other
\* expression writes nothing
RECURSIVE hashOfTupleTokens(_, _)
hashOfTupleTokens(els, i) ==
  IF i > Len(els) THEN <<>>
  ELSE LET el == els[i]
           tok == IF el.kind = "Literal" THEN <<el.value>>
                  ELSE IF el.kind = "Tuple" THEN <<Hash(hashOfTupleTokens(el.elems, 1))>>
                  ELSE <<>>
       IN tok \o hashOfTupleTokens(els, i + 1)

hashOfTuple(tup) == HashResult(Hash(hashOfTupleTokens(tup.elems, 1)), NoErr)

hashOfLiteral(l, t, u) ==
  LET c == Convert(t, l.value, u)
  IN IF c.err # NoErr THEN HashResult(Hash(<<>>), c.err)
                      ELSE HashResult(Hash(<<c.val>>), NoErr)

hashOf(e, t, u) ==
  IF e.kind = "Tuple" THEN hashOfTuple(e)
  ELSE IF e.kind = "Literal" THEN hashOfLiteral(e, t, u)
  ELSE HashResult(Hash(<<>>), ErrUnsupportedHashInSubexpression)

InMap(elements, hasNull, t, err) ==
  [elements |-> elements, hasNull |-> hasNull, t |-> t, err |-> err]

\* the loop of newInMap from element i on; elements is the map as a set of
\* key/expression pairs, at most one pair per key
RECURSIVE newInMapLoop(_, _, _, _, _, _)
newInMapLoop(els, i, elements, hasNull, t, u) ==
  IF i > Len(els) THEN InMap(elements, hasNull, t, NoErr)
  ELSE
    LET el == els[i]
        t1 == IF t = NilType THEN TypeOf(el) ELSE t
        numEls == NumColumns(Promote(TypeOf(el)))
    IN IF t # NilType /\ NumColumns(t) # numEls
         THEN InMap({}, hasNull, NilType, ErrInvalidOperandColumns)
       ELSE IF el.kind \in {"Literal", "Tuple"}
         THEN LET h == hashOf(el, t1, u)
              IN IF h.err # NoErr
                   THEN InMap({}, hasNull, t1, ErrUnsupportedHashInSubexpression)
                   ELSE newInMapLoop(els, i + 1,
                          {p \in elements : p.key # h.key} \cup {[key |-> h.key, expr |-> el]},
                          hasNull, t1, u)
       ELSE InMap({}, hasNull, t1, ErrUnsupportedHashInSubexpression)

newInMap(expr, u) ==
  IF expr.kind = "Tuple"
    THEN newInMapLoop(expr.elems, 1, {}, FALSE, NilType, u)
    ELSE InMap({}, FALSE, NilType, ErrUnsupportedHashInOperand)

NewHashInTuple(l, r, u) ==
  LET m == newInMap(r, u)
  IN IF m.err # NoErr
       THEN [node |-> [kind |-> "none"], err |-> m.err]
       ELSE [node |-> [kind |-> "HashInTuple", left |-> l, right |-> r,
                       cmp |-> m.elements, hasNull |-> m.hasNull, rightType |-> m.t],
             err |-> NoErr]

\* TransformUp with the function of normalizeLeft: every GetField of the
\* tree becomes a Literal of its value on the row
RECURSIVE normalizeTuple(_, _)
normalizeTuple(e, row) ==
  IF e.kind = "GetField"
    THEN LET v == EvalExpr(e, row)
         IN [expr |-> Literal(v.val, e.type), err |-> v.err]
  ELSE IF e.kind = "Tuple"
    THEN LET rs == [i \in 1..Len(e.elems) |-> normalizeTuple(e.elems[i], row)]
             bad == {i \in 1..Len(rs) : rs[i].err # NoErr}
         IN IF bad # {}
              THEN [expr |-> e, err |-> rs[CHOOSE j \in bad : \A m \in bad : j <= m].err]
              ELSE [expr |-> Tuple([i \in 1..Len(rs) |-> rs[i].expr]), err |-> NoErr]
  ELSE [expr |-> e, err |-> NoErr]

normalizeLeft(expr, row) ==
  IF expr.kind = "Tuple" THEN normalizeTuple(expr, row)
  ELSE IF expr.kind = "Literal" THEN [expr |-> expr, err |-> NoErr]
  ELSE IF expr.kind = "GetField"
    THEN LET v == EvalExpr(expr, row)
         IN [expr |-> Literal(v.val, expr.type), err |-> v.err]
  ELSE [expr |-> expr, err |-> ErrUnsupportedHashInOperand]

HashInTupleEval(hit, row, u) ==
  IF hit.hasNull THEN Result(NullV, NoErr, <<>>)
  ELSE
    LET nl == normalizeLeft(hit.left, row)
    IN IF nl.err # NoErr THEN Result(NullV, nl.err, <<>>)
       ELSE IF NumColumns(hit.rightType) # NumColumns(Promote(TypeOf(nl.expr)))
         THEN Result(NullV, ErrInvalidOperandColumns, <<>>)
       ELSE
         LET leftVal == EvalExpr(nl.expr, row)
         IN IF leftVal.err # NoErr THEN Result(NullV, leftVal.err, <<>>)
            ELSE IF leftVal.val = NullV THEN Result(NullV, NoErr, <<>>)
            ELSE
              LET h == hashOf(nl.expr, hit.rightType, u)
              IN IF h.err # NoErr THEN Result(NullV, h.err, <<>>)
                 ELSE IF \E p \in hit.cmp : p.key = h.key
                   THEN Result(TrueV, NoErr, <<>>)
                   ELSE Result(FalseV, NoErr, <<>>)

\* ------------------------------------------------------------- mini-parser
\* A bufio.Reader over an input: the input is a sequence of one-character
\* strings, pos the index of the next rune to read.
EOF == "io.EOF"
errUnexpectedSyntax == "errUnexpectedSyntax"

\* the backtick rune (written as an apostrophe here)
Quote == "'"
Letters == {"a", "b", "B"}
Digits == {"1"}
Spaces == {" "}
IsLetter(c) == c \in Letters
IsDigit(c) == c \in Digits
IsSpace(c) == c \in Spaces

\* strings.ToLower
LowerRune(c) == IF c = "B" THEN "b" ELSE c
ToLower(str) == [i \in 1..Len(str) |-> LowerRune(str[i])]

ReadRune(inp, pos) ==
  IF pos > Len(inp) THEN [r |-> "", pos |-> pos, err |-> EOF]
                    ELSE [r |-> inp[pos], pos |-> pos + 1, err |-> NoErr]

\* Peek(n): the next n bytes, or the fewer that are left together with io.EOF
Peek(inp, pos, n) ==
  IF pos + n - 1 > Len(inp)
    THEN [bs |-> SubSeq(inp, pos, Len(inp)), err |-> EOF]
    ELSE [bs |-> SubSeq(inp, pos, pos + n - 1), err |-> NoErr]

\* the outcome of a parse step: reader position, error, bytes buffered
Step(pos, err, buf) == [pos |-> pos, err |-> err, buf |-> buf]

expectQuote(inp, pos) ==
  LET rr == ReadRune(inp, pos)
  IN IF rr.err # NoErr THEN Step(rr.pos, rr.err, <<>>)
     ELSE IF rr.r # Quote THEN Step(rr.pos, errUnexpectedSyntax, <<>>)
     ELSE Step(rr.pos, NoErr, <<>>)

skipSpaces(inp, pos) ==
  LET rest == {i \in pos..Len(inp) : ~IsSpace(inp[i])}
  IN IF rest = {} THEN Step(Len(inp) + 1, NoErr, <<>>)
     ELSE Step(CHOOSE i \in rest : \A m \in rest : i <= m, NoErr, <<>>)

readLetter(inp, pos, buf) ==
  LET rr == ReadRune(inp, pos)
  IN IF rr.err # NoErr THEN Step(pos, NoErr, buf)
     ELSE IF ~IsLetter(rr.r) THEN Step(pos, NoErr, buf)
     ELSE Step(rr.pos, NoErr, Append(buf, rr.r))

readValidIdentRune(inp, pos, buf) ==
  LET rr == ReadRune(inp, pos)
  IN IF rr.err # NoErr THEN Step(pos, rr.err, buf)
     ELSE IF ~IsLetter(rr.r) /\ ~IsDigit(rr.r) /\ rr.r # "_" THEN Step(pos, EOF, buf)
     ELSE Step(rr.pos, NoErr, Append(buf, rr.r))

readValidQuotedIdentRune(inp, pos, buf) ==
  LET pk == Peek(inp, pos, 2)
  IN IF pk.err # NoErr THEN Step(pos, pk.err, buf)
     ELSE IF pk.bs[1] = Quote /\ pk.bs[2] = Quote THEN Step(pos + 2, NoErr, Append(buf, Quote))
     ELSE IF pk.bs[1] = Quote /\ pk.bs[2] # Quote THEN Step(pos, EOF, buf)
     ELSE Step(pos + 1, NoErr, Append(buf, pk.bs[1]))

\* the outcome of reading an identifier: position, error, the identifier
Ident(pos, err, ident) == [pos |-> pos, err |-> err, ident |-> ident]

\* the for loop of readIdent: runes are read until readValidIdentRune
\* answers io.EOF
RECURSIVE readIdentLoop(_, _, _)
readIdentLoop(inp, pos, buf) ==
  LET st == readValidIdentRune(inp, pos, buf)
  IN IF st.err = EOF THEN Step(st.pos, NoErr, st.buf)
     ELSE readIdentLoop(inp, st.pos, st.buf)

readIdent(inp, pos, ident) ==
  LET first == readLetter(inp, pos, <<>>)
      rest == readIdentLoop(inp, first.pos, first.buf)
  IN Ident(rest.pos, NoErr, ToLower(rest.buf))

RECURSIVE readQuotedIdentLoop(_, _, _)
readQuotedIdentLoop(inp, pos, buf) ==
  LET st == readValidQuotedIdentRune(inp, pos, buf)
  IN IF st.err = EOF THEN Step(st.pos, NoErr, st.buf)
     ELSE readQuotedIdentLoop(inp, st.pos, st.buf)

readQuotedIdent(inp, pos, ident) ==
  LET first == readValidQuotedIdentRune(inp, pos, <<>>)
  IN IF first.err # NoErr THEN Ident(first.pos, first.err, ident)
     ELSE LET rest == readQuotedIdentLoop(inp, first.pos, first.buf)
          IN Ident(rest.pos, NoErr, ToLower(rest.buf))

readQuotableIdent(inp, pos, ident) ==
  LET nextChar == Peek(inp, pos, 1)
  IN IF nextChar.err # NoErr THEN Ident(pos, nextChar.err, ident)
     ELSE IF nextChar.bs[1] = Quote
       THEN LET q1 == expectQuote(inp, pos)
            IN IF q1.err # NoErr THEN Ident(q1.pos, q1.err, ident)
               ELSE LET id == readQuotedIdent(inp, q1.pos, ident)
                    IN IF id.err # NoErr THEN id
                       ELSE LET q2 == expectQuote(inp, id.pos)
                            IN Ident(q2.pos, q2.err, id.ident)
     ELSE readIdent(inp, pos, ident)

\* the outcome of maybeList: position, error, the list
List(pos, err, list) == [pos |-> pos, err |-> err, list |-> list]

\* the for loop of maybeList without the append before the return on the
\* closing rune: the last item is dropped
RECURSIVE maybeListLoopDropLast(_, _, _, _, _)
maybeListLoopDropLast(separator, closing, inp, pos, list) ==
  LET s1 == skipSpaces(inp, pos)
      id == readIdent(inp, s1.pos, <<>>)
      s2 == skipSpaces(inp, id.pos)
      rr == ReadRune(inp, s2.pos)
  IN IF rr.err # NoErr THEN List(rr.pos, rr.err, list)
     ELSE IF rr.r = closing THEN List(rr.pos, NoErr, list)
     ELSE IF rr.r = separator
       THEN maybeListLoopDropLast(separator, closing, inp, rr.pos, Append(list, id.ident))
     ELSE List(rr.pos, errUnexpectedSyntax, list)

\* the for loop of maybeList: skipSpaces, readIdent, skipSpaces (none of
\* which fails), then the rune that closes or continues the list
RECURSIVE maybeListLoop(_, _, _, _, _)
maybeListLoop(separator, closing, inp, pos, list) ==
  LET s1 == skipSpaces(inp, pos)
      id == readIdent(inp, s1.pos, <<>>)
      s2 == skipSpaces(inp, id.pos)
      rr == ReadRune(inp, s2.pos)
  IN IF rr.err # NoErr THEN List(rr.pos, rr.err, list)
     ELSE IF rr.r = closing THEN List(rr.pos, NoErr, Append(list, id.ident))
     ELSE IF rr.r = separator
       THEN maybeListLoop(separator, closing, inp, rr.pos, Append(list, id.ident))
     ELSE List(rr.pos, errUnexpectedSyntax, list)

maybeList(opening, separator, closing, inp, pos, list) ==
  LET rr == ReadRune(inp, pos)
  IN IF rr.err # NoErr THEN List(rr.pos, rr.err, list)
     ELSE IF rr.r # opening THEN List(pos, NoErr, list)
     ELSE maybeListLoop(separator, closing, inp, rr.pos, list)

\* ----------------------------------------------------- optional and maybe
expectRune(expected, inp, pos) ==
  LET rr == ReadRune(inp, pos)
  IN IF rr.err # NoErr THEN Step(rr.pos, rr.err, <<>>)
     ELSE IF rr.r # expected THEN Step(rr.pos, errUnexpectedSyntax, <<>>)
     ELSE Step(rr.pos, NoErr, <<>>)

\* a parseFunc handed to optional: the function and its argument
ParseFunc(fn, arg) == [fn |-> fn, arg |-> arg]

\* step(rd)
ApplyStep(step, inp, pos) ==
  IF step.fn = "expectRune" THEN expectRune(step.arg, inp, pos)
  ELSE IF step.fn = "expectQuote" THEN expectQuote(inp, pos)
  ELSE skipSpaces(inp, pos)

\* the outcome of optional: position, error, and whether the error of a step
\* was turned into success
Optional(pos, err, swallowed) == [pos |-> pos, err |-> err, swallowed |-> swallowed]

\* the for loop of optional from step i on
RECURSIVE optionalLoop(_, _, _, _)
optionalLoop(steps, i, inp, pos) ==
  IF i > Len(steps) THEN Optional(pos, NoErr, FALSE)
  ELSE LET st == ApplyStep(steps[i], inp, pos)
       IN IF st.err = EOF \/ st.err = errUnexpectedSyntax THEN Optional(st.pos, NoErr, TRUE)
          ELSE IF st.err # NoErr THEN Optional(st.pos, st.err, FALSE)
          ELSE optionalLoop(steps, i + 1, inp, st.pos)

optional(steps, inp, pos) == optionalLoop(steps, 1, inp, pos)

\* the outcome of maybe: position, error, *matched
Maybe(pos, err, matched) == [pos |-> pos, err |-> err, matched |-> matched]

maybe(str, inp, pos) ==
  LET strLength == Len(str)
      pk == Peek(inp, pos, strLength)
  IN IF pk.err # NoErr
       THEN IF Len(pk.bs) < strLength THEN Maybe(pos, NoErr, FALSE)
                                      ELSE Maybe(pos, pk.err, FALSE)
     ELSE IF ToLower(pk.bs) = str THEN Maybe(pos + strLength, NoErr, TRUE)
     ELSE Maybe(pos, NoErr, FALSE)

\* ------------------------------------------------------------------- state
\* left, right, row: the operands and the row under evaluation
\* undef:   what Convert / Compare do on NULL in this run
\* inNode:  the node NewInTuple returned;  inRes: what its Eval returned
\* hashNode, hashErr: what NewHashInTuple returned; hashRes: its Eval
\* wcRes:   what the last WithChildren call returned
\* input, pos: the reader of the mini-parser; ident, list: what the parse
\* functions write to; op, perr: the last parse function called and its
\* error; prevPos, prevList: pos and list before that call
\* matched: the *matched of maybe; str: the string maybe was called with;
\* swallowed: whether optional turned the error of a step into success
VARIABLES left, right, row, undef, inNode, inRes, hashNode, hashErr, hashRes, wcRes,
          input, pos, ident, list, op, perr, prevPos, prevList,
          matched, swallowed, str

exprVars == <<left, right, row, undef, inNode, inRes, hashNode, hashErr, hashRes, wcRes>>
parseVars == <<input, pos, ident, list, op, perr, prevPos, prevList, matched, swallowed, str>>
vars == <<exprVars, parseVars>>

None == [kind |-> "none"]
NotRun == "none"
NoResult == Result(NullV, NotRun, <<>>)
NoChildren == [recv |-> "none", n |-> 0, node |-> None, err |-> NotRun]

Lefts ==
  { Literal(IntV(7), Int8), Literal(StrV(NonNumeric), Text),
    GetField(0, Int64), Tuple(<<GetField(0, Int64), Literal(IntV(7), Int64)>>) }

Candidates ==
  { Literal(NullV, NullType), Literal(IntV(5), Int8), Literal(IntV(7), Int64),
    Literal(StrV(5), Text), GetField(0, Int64), GetField(1, Int64),
    Tuple(<<Literal(IntV(5), Int64), Literal(IntV(7), Int64)>>),
    Tuple(<<Literal(IntV(5), Int64), GetField(0, Int64)>>) }

Rights ==
  { Tuple(s) : s \in UNION { [1..n -> Candidates] : n \in 0..MaxCands } }
    \cup { Literal(IntV(5), Int64) }

Rows == { <<NullV>>, <<IntV(5)>> }

ExprIdle ==
  /\ left = Literal(NullV, NullType)
  /\ right = Tuple(<<>>)
  /\ row = <<>>
  /\ undef = [conv |-> "null", cmp |-> -1]
  /\ inNode = None
  /\ inRes = NoResult
  /\ hashNode = None
  /\ hashErr = NotRun
  /\ hashRes = NoResult
  /\ wcRes = NoChildren

ParserIdle ==
  /\ input = <<>>
  /\ pos = 1
  /\ ident = <<>>
  /\ list = <<>>
  /\ op = "none"
  /\ perr = NotRun
  /\ prevPos = 1
  /\ prevList = <<>>
  /\ matched = FALSE
  /\ swallowed = FALSE
  /\ str = <<>>

Init ==
  /\ left \in Lefts
  /\ right \in Rights
  /\ row \in Rows
  /\ undef \in Undefined
  /\ inNode = None
  /\ inRes = NoResult
  /\ hashNode = None
  /\ hashErr = NotRun
  /\ hashRes = NoResult
  /\ wcRes = NoChildren
  /\ ParserIdle

DoNewInTuple ==
  /\ inNode = None
  /\ inNode' = NewInTuple(left, right)
  /\ UNCHANGED <<left, right, row, undef, inRes, hashNode, hashErr, hashRes, wcRes, parseVars>>

DoInTupleEval ==
  /\ inNode # None
  /\ inRes' = InTupleEval(inNode, row, undef)
  /\ UNCHANGED <<left, right, row, undef, inNode, hashNode, hashErr, hashRes, wcRes, parseVars>>

DoNewHashInTuple ==
  /\ hashErr = NotRun
  /\ LET r == NewHashInTuple(left, right, undef)
     IN hashNode' = r.node /\ hashErr' = r.err
  /\ UNCHANGED <<left, right, row, undef, inNode, inRes, hashRes, wcRes, parseVars>>

DoHashInTupleEval ==
  /\ hashNode # None
  /\ hashRes' = HashInTupleEval(hashNode, row, undef)
  /\ UNCHANGED <<left, right, row, undef, inNode, inRes, hashNode, hashErr, wcRes, parseVars>>

\* the first n of the operands left, right, left, ...
ChildrenOf(n) == [i \in 1..n |-> IF i % 2 = 1 THEN left ELSE right]

DoInTupleWithChildren ==
  /\ inNode # None
  /\ \E n \in 0..MaxChildren :
       LET r == InTupleWithChildren(inNode, ChildrenOf(n))
       IN wcRes' = [recv |-> "InTuple", n |-> n, node |-> r.node, err |-> r.err]
  /\ UNCHANGED <<left, right, row, undef, inNode, inRes, hashNode, hashErr, hashRes, parseVars>>

DoHashInTupleWithChildren ==
  /\ hashNode # None
  /\ \E n \in 0..MaxChildren :
       LET r == InTupleWithChildren(hashNode, ChildrenOf(n))
       IN wcRes' = [recv |-> "HashInTuple", n |-> n, node |-> r.node, err |-> r.err]
  /\ UNCHANGED <<left, right, row, undef, inNode, inRes, hashNode, hashErr, hashRes, parseVars>>

Next ==
  \/ DoNewInTuple
  \/ DoInTupleEval
  \/ DoNewHashInTuple
  \/ DoHashInTupleEval
  \/ DoInTupleWithChildren
  \/ DoHashInTupleWithChildren

Spec == Init /\ [][Next]_vars

\* ------------------------------------------------------- mini-parser runs
Opening == "("
Separator == ","
Closing == ")"
Alphabet == {"a", "B", "1", Quote, Opening, Separator, Closing, " "}

RawInputs == UNION { [1..n -> Alphabet] : n \in 0..MaxLen }

\* the text of a list: the items between the opening and the closing rune,
\* separated by the separator, which a space follows when spaced
Items == { <<"a">>, <<"B">>, <<"a", "1">> }
ItemSeqs == UNION { [1..n -> Items] : n \in 1..MaxItems }

RECURSIVE JoinItems(_, _, _)
JoinItems(items, i, spaced) ==
  IF i > Len(items) THEN <<>>
  ELSE (IF i = 1 THEN <<>> ELSE IF spaced THEN <<Separator, " ">> ELSE <<Separator>>)
         \o items[i] \o JoinItems(items, i + 1, spaced)

OpenListText(items, spaced) == <<Opening>> \o JoinItems(items, 1, spaced)
ListText(items, spaced) == OpenListText(items, spaced) \o <<Closing>>

ListInputs ==
  { ListText(items, sp) \o tail :
      items \in ItemSeqs, sp \in BOOLEAN, tail \in {<<>>, <<"a">>} }
  \cup { OpenListText(items, sp) : items \in ItemSeqs, sp \in BOOLEAN }

\* the text of a quoted identifier: every backtick of the name doubled
Names == UNION { [1..n -> {"a", "B", Quote}] : n \in 1..MaxName }

RECURSIVE Escape(_)
Escape(name) ==
  IF name = <<>> THEN <<>>
  ELSE (IF Head(name) = Quote THEN <<Quote, Quote>> ELSE <<Head(name)>>)
         \o Escape(Tail(name))

QuotedText(name) == <<Quote>> \o Escape(name) \o <<Quote>>

QuotedInputs ==
  { QuotedText(name) \o tail : name \in Names, tail \in {<<>>, <<"a">>, <<" ">>} }
  \cup { <<Quote>> \o Escape(name) : name \in Names }

Inputs == RawInputs \cup ListInputs \cup QuotedInputs

InitParse ==
  /\ ExprIdle
  /\ input \in Inputs
  /\ pos = 1
  /\ ident = <<>>
  /\ list \in { <<>>, << <<"b">> >> }
  /\ op = "none"
  /\ perr = NotRun
  /\ prevPos = 1
  /\ prevList = list
  /\ matched = FALSE
  /\ swallowed = FALSE
  /\ str = <<>>

DoReadQuotableIdent ==
  /\ LET r == readQuotableIdent(input, pos, ident)
     IN pos' = r.pos /\ ident' = r.ident /\ perr' = r.err
  /\ op' = "readQuotableIdent"
  /\ prevPos' = pos
  /\ prevList' = list
  /\ UNCHANGED <<input, list, matched, swallowed, str, exprVars>>

DoMaybeList ==
  /\ LET r == maybeList(Opening, Separator, Closing, input, pos, list)
     IN pos' = r.pos /\ list' = r.list /\ perr' = r.err
  /\ op' = "maybeList"
  /\ prevPos' = pos
  /\ prevList' = list
  /\ UNCHANGED <<input, ident, matched, swallowed, str, exprVars>>

NextParse == DoReadQuotableIdent \/ DoMaybeList

SpecParse == InitParse /\ [][NextParse]_vars

\* ------------------------------------------------------- combinator runs
TextInputs == UNION { [1..n -> Alphabet] : n \in 0..MaxText }

StepPool ==
  { ParseFunc("expectRune", Opening), ParseFunc("expectRune", "a"),
    ParseFunc("expectQuote", ""), ParseFunc("skipSpaces", "") }
StepSeqs == UNION { [1..n -> StepPool] : n \in 1..MaxSteps }

MaybeStrs == { <<"a">>, <<"b">>, <<"B">>, <<"a", "1">> }

InitComb ==
  /\ ExprIdle
  /\ input \in TextInputs
  /\ pos = 1
  /\ ident = <<>>
  /\ list = <<>>
  /\ op = "none"
  /\ perr = NotRun
  /\ prevPos = 1
  /\ prevList = <<>>
  /\ matched = FALSE
  /\ swallowed = FALSE
  /\ str = <<>>

DoOptional ==
  /\ \E steps \in StepSeqs :
       LET r == optional(steps, input, pos)
       IN pos' = r.pos /\ perr' = r.err /\ swallowed' = r.swallowed
  /\ op' = "optional"
  /\ prevPos' = pos
  /\ prevList' = list
  /\ str' = <<>>
  /\ UNCHANGED <<input, ident, list, matched, exprVars>>

DoMaybe ==
  /\ \E s \in MaybeStrs :
       LET r == maybe(s, input, pos)
       IN pos' = r.pos /\ perr' = r.err /\ matched' = r.matched /\ str' = s
  /\ op' = "maybe"
  /\ prevPos' = pos
  /\ prevList' = list
  /\ UNCHANGED <<input, ident, list, swallowed, exprVars>>

NextComb == DoOptional \/ DoMaybe

SpecComb == InitComb /\ [][NextComb]_vars

\* ================================================================== claims
LeftType == Promote(TypeOf(left))
LeftVal == EvalExpr(left, row)
IsList == right.kind = "Tuple"
NumCands == IF IsList THEN Len(right.elems) ELSE 0
CandVal(i) == EvalExpr(right.elems[i], row)
Evaluated == inRes.err # NotRun
HashEvaluated == hashRes.err # NotRun

ColumnMismatch ==
  /\ IsList
  /\ \E i \in 1..NumCands : NumColumns(TypeOf(right.elems[i])) # NumColumns(LeftType)

\* candidate i is not NULL and equals the left value once both are converted
\* to the left operand's promoted type
CandEquals(i) ==
  LET cv == CandVal(i)
      lc == Convert(LeftType, LeftVal.val, undef)
      cc == Convert(LeftType, cv.val, undef)
  IN /\ LeftVal.err = NoErr /\ LeftVal.val # NullV /\ lc.err = NoErr
     /\ cv.err = NoErr /\ cv.val # NullV /\ cc.err = NoErr
     /\ Compare(LeftType, lc.val, cc.val, undef) = [cmp |-> 0, err |-> NoErr]

\* a value with no NULL inside it (NULL itself is plain)
Plain(v) == \A i \in 1..Len(v.elems) : v.elems[i] # NullV

\* the cases of SQL membership: every operand evaluates, the column counts
\* agree, every value that is not NULL converts to the left's promoted type
MembershipCase ==
  /\ Evaluated /\ IsList /\ ~ColumnMismatch
  /\ LeftVal.err = NoErr /\ Plain(LeftVal.val)
  /\ LeftVal.val # NullV => Convert(LeftType, LeftVal.val, undef).err = NoErr
  /\ \A i \in 1..NumCands :
       /\ CandVal(i).err = NoErr /\ Plain(CandVal(i).val)
       /\ CandVal(i).val # NullV => Convert(LeftType, CandVal(i).val, undef).err = NoErr

ThreeValuedIn ==
  IF LeftVal.val = NullV THEN NullV
  ELSE IF \E i \in 1..NumCands : CandEquals(i) THEN TrueV
  ELSE IF \E i \in 1..NumCands : CandVal(i).val = NullV THEN NullV
  ELSE FalseV

\* C1: linear InTuple.Eval follows SQL three-valued membership for every left
\* value and every candidate list, with any number of NULL candidates: NULL
\* for a NULL left, else true on an equal non-NULL candidate, else NULL when
\* a candidate is NULL, else false.
C1_ThreeValuedMembership ==
  MembershipCase => inRes.err = NoErr /\ inRes.val = ThreeValuedIn

HasNullLiteral ==
  /\ IsList
  /\ \E i \in 1..NumCands :
       right.elems[i].kind = "Literal" /\ right.elems[i].value = NullV

\* C2: a HashInTuple built from a list that contains a NULL literal has its
\* NULL flag set and its Eval returns NULL without error; with no NULL in
\* the list the flag is clear.
C2_NullFlagRecorded ==
  hashNode # None =>
    /\ hashNode.hasNull = HasNullLiteral
    /\ (HasNullLiteral /\ HashEvaluated) => (hashRes.val = NullV /\ hashRes.err = NoErr)

OnlyNonNullLiterals ==
  /\ IsList
  /\ \A i \in 1..NumCands :
       right.elems[i].kind = "Literal" /\ right.elems[i].value # NullV

\* C3: over a list of non-NULL literals (the empty list included) the hashed
\* and the linear node return the same result on the same row: the same value,
\* and an error in one exactly when in the other.
C3_HashAgreesWithLinear ==
  (OnlyNonNullLiterals /\ Evaluated /\ HashEvaluated) =>
    /\ hashRes.val = inRes.val
    /\ (hashRes.err = NoErr) <=> (inRes.err = NoErr)

\* C4: when a candidate's column count differs from that of the left
\* operand's promoted type, Eval of either node returns
\* ErrInvalidOperandColumns on every row, a NULL left operand included.
C4_ColumnMismatchOnEveryRow ==
  /\ (Evaluated /\ ColumnMismatch) => inRes.err = ErrInvalidOperandColumns
  /\ (HashEvaluated /\ NumColumns(hashNode.rightType) # NumColumns(LeftType))
       => hashRes.err = ErrInvalidOperandColumns

RECURSIVE LiteralTree(_)
LiteralTree(e) ==
  \/ e.kind = "Literal"
  \/ e.kind = "Tuple" /\ \A i \in 1..Len(e.elems) : LiteralTree(e.elems[i])

\* C5: NewHashInTuple returns a node only for a Tuple whose candidates are
\* literals or tuples of literals at every depth; a non-Tuple right operand
\* fails with ErrUnsupportedHashInOperand, a candidate that is or contains a
\* non-literal with ErrUnsupportedHashInSubexpression, and then no node.
C5_ConstructionValidates ==
  /\ hashNode # None => (IsList /\ \A i \in 1..NumCands : LiteralTree(right.elems[i]))
  /\ (hashErr # NotRun /\ ~IsList)
       => (hashErr = ErrUnsupportedHashInOperand /\ hashNode = None)
  /\ (hashErr # NotRun /\ IsList /\ \E i \in 1..NumCands : ~LiteralTree(right.elems[i]))
       => (hashErr = ErrUnsupportedHashInSubexpression /\ hashNode = None)

Receiver == IF wcRes.recv = "InTuple" THEN inNode ELSE hashNode

\* C6: WithChildren on an InTuple or a HashInTuple with a number of children
\* other than len(Children()) = 2 fails with ErrInvalidChildrenNumber, returns
\* no node and leaves the receiver's operands as they were.
C6_WithChildrenRejectsCount ==
  (wcRes.err # NotRun /\ wcRes.n # Len(InTupleChildren(Receiver))) =>
    /\ wcRes.err = ErrInvalidChildrenNumber
    /\ wcRes.node = None
    /\ Len(InTupleChildren(Receiver)) = 2
    /\ Receiver.left = left /\ Receiver.right = right

C6_Witness ==
  /\ wcRes.recv = "HashInTuple" /\ wcRes.n = 3
  /\ wcRes.err = ErrInvalidChildrenNumber

EvalEvents == SelectSeq(inRes.log, LAMBDA e : e.ev = "eval")

\* C9: linear Eval evaluates the left operand once and first, then the
\* candidates in list order, none after the first candidate that equals the
\* left value, and none at all when the left operand is NULL.
C9_EvaluationOrder ==
  Evaluated =>
    /\ Len(EvalEvents) >= 1
    /\ inRes.log[1] = Event("eval", 0, NullV)
    /\ Len(EvalEvents) - 1 <= NumCands
    /\ \A j \in 2..Len(EvalEvents) : EvalEvents[j].i = j - 1
    /\ (LeftVal.err = NoErr /\ LeftVal.val = NullV) => Len(EvalEvents) = 1
    /\ \A j \in 2..Len(EvalEvents) : \A i \in 1..(j - 2) : ~CandEquals(i)

\* a match on the first candidate, the second one (which would fail) untouched
C9_Witness ==
  /\ Evaluated /\ NumCands = 2
  /\ CandEquals(1) /\ CandVal(2).err # NoErr
  /\ inRes.val = TrueV /\ inRes.err = NoErr
  /\ Len(EvalEvents) = 2

\* C10: linear Eval never hands a NULL candidate value to Convert or Compare,
\* whatever the number of NULL candidates.
C10_NullNeverConverted ==
  \A k \in 1..Len(inRes.log) :
    (inRes.log[k].ev \in {"convert", "compare"} /\ inRes.log[k].i >= 1)
      => inRes.log[k].v # NullV

\* ------------------------------------------------------ mini-parser claims
\* the input from where the last parse function started
Rest == SubSeq(input, prevPos, Len(input))
IsPrefix(p, s) == Len(p) <= Len(s) /\ SubSeq(s, 1, Len(p)) = p

\* the input is the quoted text of name, and what follows is not a backtick
QuotedAhead(name) ==
  /\ IsPrefix(QuotedText(name), Rest)
  /\ Len(Rest) > Len(QuotedText(name)) => Rest[Len(QuotedText(name)) + 1] # Quote

\* the opening backtick is the only backtick of the input
Unterminated ==
  /\ Len(Rest) >= 1 /\ Rest[1] = Quote
  /\ \A i \in 2..Len(Rest) : Rest[i] # Quote

\* C7 (first half): readQuotableIdent reads a backtick-quoted identifier, a
\* doubled backtick standing for one backtick, through the closing backtick.
C7_QuotedIdentRead ==
  op = "readQuotableIdent" =>
    \A name \in Names :
      QuotedAhead(name) =>
        /\ perr = NoErr
        /\ ident = ToLower(name)
        /\ pos = prevPos + Len(QuotedText(name))

\* C7: readQuotableIdent reads a backtick-quoted identifier as above, and on
\* an opening backtick with no closing backtick before the end of the input
\* it fails with errUnexpectedSyntax and no other error.
C7_UnterminatedIsSyntaxError ==
  /\ C7_QuotedIdentRead
  /\ (op = "readQuotableIdent" /\ Unterminated) => perr = errUnexpectedSyntax

ListAhead(items, spaced) == IsPrefix(ListText(items, spaced), Rest)

NoClosingAhead ==
  /\ Len(Rest) >= 1 /\ Rest[1] = Opening
  /\ \A i \in 1..Len(Rest) : Rest[i] # Closing

NoOpeningAhead == Len(Rest) >= 1 /\ Rest[1] # Opening

\* what maybeList does when the closing rune is missing and when the list
\* does not open
MaybeListOtherCases ==
  /\ NoClosingAhead => perr # NoErr
  /\ NoOpeningAhead => (perr = NoErr /\ pos = prevPos /\ list = prevList)

\* C8 as stated: on a well-formed list maybeList appends exactly the
\* identifiers of the input, in order, and consumes through the closing rune;
\* with the closing rune missing it fails; with no opening rune it succeeds
\* and changes neither the position nor the list.
C8_AppendsIdentifiers ==
  op = "maybeList" =>
    /\ \A items \in ItemSeqs : \A sp \in BOOLEAN :
         ListAhead(items, sp) =>
           /\ perr = NoErr
           /\ list = prevList \o items
           /\ pos = prevPos + Len(ListText(items, sp))
    /\ MaybeListOtherCases

\* C8 amended: the identifiers are appended in lower case.
C8_AppendsLowerCasedIdentifiers ==
  op = "maybeList" =>
    /\ \A items \in ItemSeqs : \A sp \in BOOLEAN :
         ListAhead(items, sp) =>
           /\ perr = NoErr
           /\ list = prevList \o [i \in 1..Len(items) |-> ToLower(items[i])]
           /\ pos = prevPos + Len(ListText(items, sp))
    /\ MaybeListOtherCases

\* "(a, B, a1)" after a list that already held an item
C8_Witness ==
  /\ op = "maybeList" /\ perr = NoErr
  /\ ListAhead(<< <<"a">>, <<"B">>, <<"a", "1">> >>, TRUE)
  /\ prevList = << <<"b">> >>
  /\ list = << <<"b">>, <<"a">>, <<"b">>, <<"a", "1">> >>

\* ------------------------------------------------------ combinator claims
\* what maybe does to the reader: nothing unless it matched, and then
\* exactly len(str) bytes
C11_MaybeConsumesOnlyOnMatch ==
  op = "maybe" =>
    /\ perr = NoErr
    /\ ~matched => pos = prevPos
    /\ matched => pos = prevPos + Len(str)

\* C11: optional and maybe treat a rule that does not match as "not matched,
\* no input consumed": when optional swallows a step's syntax error or
\* end-of-input, and when maybe ends with matched = false, the call succeeds
\* and the reader is where it was; maybe consumes len(str) bytes only when it
\* sets matched = true.
C11_NoInputConsumedOnMismatch ==
  /\ (op = "optional" /\ swallowed) => (perr = NoErr /\ pos = prevPos)
  /\ C11_MaybeConsumesOnlyOnMatch

\* ----------------------------------------------------- WithChildren claim
\* Eval of a node through the Expression interface: the method of its kind
EvalNode(node, r, u) ==
  IF node.kind = "HashInTuple" THEN HashInTupleEval(node, r, u)
                               ELSE InTupleEval(node, r, u)

\* C12: WithChildren on a HashInTuple with two children (its own Children())
\* returns a hashed node, with the hash set, the NULL flag and the right-hand
\* type, whose Eval gives what the receiver's Eval gives on the row; it does
\* not return a linear InTuple.
C12_WithChildrenKeepsHashedNode ==
  (wcRes.recv = "HashInTuple" /\ wcRes.n = 2 /\ ChildrenOf(2) = InTupleChildren(hashNode)) =>
    /\ wcRes.err = NoErr
    /\ wcRes.node.kind = "HashInTuple"
    /\ wcRes.node.cmp = hashNode.cmp
    /\ wcRes.node.hasNull = hashNode.hasNull
    /\ wcRes.node.rightType = hashNode.rightType
    /\ LET a == EvalNode(wcRes.node, row, undef)
           b == EvalNode(hashNode, row, undef)
       IN a.val = b.val /\ a.err = b.err
====
